---------------------------- MODULE Spec2Model ----------------------------
(***************************************************************************)
(* The bar-by-bar backtest engine (BacktestEngine) with the entry and exit *)
(* rule composers, the pattern detectors and the indicator lookups it      *)
(* calls.                                                                  *)
(*                                                                         *)
(* Numbers.  Python floats are modelled as exact fixed-point numbers:      *)
(*   - Open/High/Low/Close of a row are whole dollars;                     *)
(*   - price levels kept by the engine (entry_price, stop_loss,            *)
(*     take_profit, trailing_stop, exit_price) are ticks, PriceScale ticks *)
(*     to the dollar, so that x*0.99, x*1.01, 1.5*stop_distance and the    *)
(*     0.75 regime multiplier of the 0.001 ATR floor are all whole ticks;  *)
(*   - the ATR and Historical_Volatility columns are thousandths;          *)
(*   - a position size is in thousandths (SizeScale), truncated;           *)
(*   - pnl and equity are ticks * size units;                              *)
(*   - momentum_score is an exact fraction <<num, den>>, den > 0;          *)
(*   - trend_strength is carried as the regression numerator (see         *)
(*     get_trend_strength).                                                *)
(* The data frame is revealed one row at a time: every lookup of the code  *)
(* reads rows <= idx only.                                                 *)
(***************************************************************************)
EXTENDS Integers, Sequences, FiniteSets, TLC

----------------------------------------------------------------------------
(* Scales of the fixed-point representation *)

PriceScale == 4 * 1000
TicksPerMilli == PriceScale \div 1000
SizeScale == 10 * 100

Abs(x) == IF x < 0 THEN -x ELSE x
Max(a, b) == IF a >= b THEN a ELSE b
Min(a, b) == IF a <= b THEN a ELSE b

----------------------------------------------------------------------------
(* Bounds of the explored input family *)

\* rows 0 .. FlatBars-1 of every frame are copies of FlatRow
FlatBars == 50
\* at most MaxTail further rows, each drawn from TailRows
MaxTail == 4
\* a frame run from main has at most MaxMainBars rows
MaxMainBars == 3
\* a frame run with an arbitrary entry composer has at most MaxGivenBars rows
MaxGivenBars == 22
\* the composers are evaluated on at most MaxRuleTail rows after the prefix
MaxRuleTail == 2
\* get_dynamic_stops is called on frames of at most MaxStopBars rows
MaxStopBars == 2

\* is_engulfing is called on frames of at most MaxEngulfBars rows
MaxEngulfBars == 2

\* frames with candles inside the trend window have at most MaxEarlyBars
\* rows
MaxEarlyBars == 53

\* the volatility regime is computed for MaxRegimeBars rows after a prefix
MaxRegimeBars == 2
\* a frame is run a second time only if it has at most MaxRerunTail tail rows
MaxRerunTail == 2
\* the initial_capital the engine is constructed with, in dollars
initial_capital == 100

FlatClose == 100

----------------------------------------------------------------------------
(* Program constants *)

\* BacktestEngine.__init__ position_size = 0.1, in SizeScale units
position_size == 100
\* process_bar: elif idx >= 20
WarmUp == 20
\* check_entry_signals: if idx < 20
EntryHistory == 20
\* get_trend_strength: window = 50
TrendWindow == 50
\* VolatilityParams.minimum_atr_value = 0.001, in thousandths
minimum_atr_value == 1
\* VolatilityParams.volatility_lookback = 20
volatility_lookback == 20
\* get_dynamic_stops: base_multiplier = 2.0
base_multiplier == 2
\* _calculate_volatility_regime: rolling(window=100)
regime_window == 100
\* is_breakout_candle: lookback = 20
breakout_lookback == 20
\* get_momentum_signals: current_rsi > 70, current_rsi < 30
RsiOverbought == 70
RsiOversold == 30

----------------------------------------------------------------------------
(* Rows of the data frame *)

Row(o, h, l, c, v, atr, rsi, hist, regime, hv) ==
    [Open |-> o, High |-> h, Low |-> l, Close |-> c, Volume |-> v,
     ATR |-> atr, RSI |-> rsi, MACD_Hist |-> hist,
     Volatility_Regime |-> regime, Historical_Volatility |-> hv]

FlatRow == Row(FlatClose, FlatClose, FlatClose, FlatClose, 1, 1000, 50, 0, 1, 200)

\* df.iloc[i]: position i of the frame, counted from 0
iloc(df, i) == df[i + 1]

RECURSIVE SumCol(_, _, _, _)
\* sum of column f over rows lo .. hi-1 (the pandas slice iloc[lo:hi])
SumCol(df, lo, hi, f) ==
    IF lo >= hi THEN 0 ELSE iloc(df, lo)[f] + SumCol(df, lo + 1, hi, f)

RECURSIVE MaxCol(_, _, _, _)
MaxCol(df, lo, hi, f) ==
    IF lo + 1 >= hi THEN iloc(df, lo)[f]
    ELSE Max(iloc(df, lo)[f], MaxCol(df, lo + 1, hi, f))

RECURSIVE MinCol(_, _, _, _)
MinCol(df, lo, hi, f) ==
    IF lo + 1 >= hi THEN iloc(df, lo)[f]
    ELSE Min(iloc(df, lo)[f], MinCol(df, lo + 1, hi, f))

RECURSIVE SumBody(_, _, _)
\* sum of abs(Close - Open) over rows lo .. hi-1
SumBody(df, lo, hi) ==
    IF lo >= hi THEN 0
    ELSE Abs(iloc(df, lo).Close - iloc(df, lo).Open) + SumBody(df, lo + 1, hi)

----------------------------------------------------------------------------
(* CandlestickPatterns *)

\* is_engulfing whose bearish test leaves the colour of the previous candle
\* out
is_engulfing_any_previous(df, idx) ==
    IF idx < 1 THEN <<FALSE, FALSE>>
    ELSE LET curr == iloc(df, idx)
             prev == iloc(df, idx - 1)
             bullish_engulfing ==
                 /\ prev.Close < prev.Open
                 /\ curr.Close > curr.Open
                 /\ curr.Open < prev.Close
                 /\ curr.Close > prev.Open
             bearish_engulfing ==
                 /\ curr.Close < curr.Open
                 /\ curr.Open > prev.Close
                 /\ curr.Close < prev.Open
         IN <<bullish_engulfing, bearish_engulfing>>

is_engulfing(df, idx) ==
    IF idx < 1 THEN <<FALSE, FALSE>>
    ELSE LET curr == iloc(df, idx)
             prev == iloc(df, idx - 1)
             bullish_engulfing ==
                 /\ prev.Close < prev.Open
                 /\ curr.Close > curr.Open
                 /\ curr.Open < prev.Close
                 /\ curr.Close > prev.Open
             bearish_engulfing ==
                 /\ prev.Close > prev.Open
                 /\ curr.Close < curr.Open
                 /\ curr.Open > prev.Close
                 /\ curr.Close < prev.Open
         IN <<bullish_engulfing, bearish_engulfing>>

\* body_size <= high_low_range * 0.1
is_doji(df, idx) ==
    IF idx < 0 THEN FALSE
    ELSE LET r == iloc(df, idx)
             body_size == Abs(r.Close - r.Open)
             high_low_range == r.High - r.Low
         IN 10 * body_size <= high_low_range

is_hammer(df, idx) ==
    IF idx < 0 THEN FALSE
    ELSE LET r == iloc(df, idx)
             body_size == Abs(r.Close - r.Open)
             lower_wick == Min(r.Open, r.Close) - r.Low
             upper_wick == r.High - Max(r.Open, r.Close)
         IN /\ lower_wick > 2 * body_size
            /\ 10 * upper_wick < body_size

is_shooting_star(df, idx) ==
    IF idx < 0 THEN FALSE
    ELSE LET r == iloc(df, idx)
             body_size == Abs(r.Close - r.Open)
             lower_wick == Min(r.Open, r.Close) - r.Low
             upper_wick == r.High - Max(r.Open, r.Close)
         IN /\ upper_wick > 2 * body_size
            /\ 10 * lower_wick < body_size

\* threshold = 0.1; body must be at least 0.9 of the range
is_marubozu(df, idx) ==
    IF idx < 0 THEN <<FALSE, FALSE>>
    ELSE LET r == iloc(df, idx)
             body_size == Abs(r.Close - r.Open)
             total_range == r.High - r.Low
         IN IF 10 * body_size < 9 * total_range THEN <<FALSE, FALSE>>
            ELSE << /\ r.Close > r.Open
                    /\ 10 * (r.High - r.Close) <= body_size
                    /\ 10 * (r.Open - r.Low) <= body_size,
                    /\ r.Close < r.Open
                    /\ 10 * (r.High - r.Open) <= body_size
                    /\ 10 * (r.Close - r.Low) <= body_size >>

----------------------------------------------------------------------------
(* MomentumPatterns *)

\* current_size > 2 * avg_size; consolidation_range < 0.2 * avg_price
is_breakout_candle(df, idx) ==
    IF idx < breakout_lookback THEN <<FALSE, FALSE>>
    ELSE LET lo == idx - breakout_lookback
             r == iloc(df, idx)
             current_size == Abs(r.Close - r.Open)
             is_large_candle ==
                 breakout_lookback * current_size > 2 * SumBody(df, lo, idx)
             lookback_high == MaxCol(df, lo, idx, "High")
             lookback_low == MinCol(df, lo, idx, "Low")
             consolidation_range == lookback_high - lookback_low
             is_consolidation ==
                 5 * breakout_lookback * consolidation_range
                     < SumCol(df, lo, idx, "Close")
         IN IF ~(is_large_candle /\ is_consolidation) THEN <<FALSE, FALSE>>
            ELSE << r.Close > r.Open /\ r.Close > lookback_high,
                    r.Close < r.Open /\ r.Close < lookback_low >>

\* current_volume > 1.5 * mean(Volume[idx-20:idx])
is_momentum_confirmed(df, idx) ==
    IF idx < 20 THEN FALSE
    ELSE 2 * 20 * iloc(df, idx).Volume > 3 * SumCol(df, idx - 20, idx, "Volume")

\* 0.7 * short_term_return + 0.3 * medium_term_return clamped to [-1, 1],
\* as the exact fraction <<num, den>> with den > 0 (closes are positive)
calculate_momentum_score(df, idx) ==
    IF idx < 20 THEN <<0, 1>>
    ELSE LET c == iloc(df, idx).Close
             c5 == iloc(df, idx - 5).Close
             c20 == iloc(df, idx - 20).Close
             num == 7 * (c - c5) * c20 + 3 * (c - c20) * c5
             den == 10 * c5 * c20
         IN IF num > den THEN <<1, 1>>
            ELSE IF num < -den THEN <<-1, 1>>
            ELSE <<num, den>>

\* comparisons of a fraction <<num, den>> with tenths/10
FracGT(q, tenths) == 10 * q[1] > tenths * q[2]
FracLT(q, tenths) == 10 * q[1] < tenths * q[2]

----------------------------------------------------------------------------
(* MomentumIndicators *)

get_momentum_signals(df, idx) ==
    IF idx < 1
    THEN [rsi_overbought |-> FALSE, rsi_oversold |-> FALSE,
          macd_bullish_cross |-> FALSE, macd_bearish_cross |-> FALSE]
    ELSE LET current_rsi == iloc(df, idx).RSI
             prev_hist == iloc(df, idx - 1).MACD_Hist
             curr_hist == iloc(df, idx).MACD_Hist
         IN [rsi_overbought |-> current_rsi > RsiOverbought,
             rsi_oversold |-> current_rsi < RsiOversold,
             macd_bullish_cross |-> prev_hist < 0 /\ curr_hist > 0,
             macd_bearish_cross |-> prev_hist > 0 /\ curr_hist < 0]

RECURSIVE SlopeNum(_, _, _)
\* sum over x = k .. TrendWindow of (x - TrendWindow/2) * Close[idx - TrendWindow + x]
SlopeNum(df, idx, k) ==
    IF k > TrendWindow THEN 0
    ELSE (2 * k - TrendWindow) * iloc(df, idx - TrendWindow + k).Close
         + SlopeNum(df, idx, k + 1)

\* get_trend_strength answering with the rise since the first row while
\* the window is not full
get_trend_strength_partial(df, idx) ==
    IF idx < TrendWindow
    THEN TrendWindow * (iloc(df, idx).Close - iloc(df, 0).Close)
    ELSE SlopeNum(df, idx, 0)

\* tanh(100 * slope) of the least-squares line through the last window + 1
\* closes.  slope = S / D with S = sum (x - mean x) * Close_x and
\* D = sum (x - mean x)^2 = 11050 for the 51 points x = 0 .. 50.  The
\* operator returns 2 * S (an integer for whole-dollar closes); tanh is
\* increasing and odd, so the sign of the result is the sign of S and
\*   trend_strength >  0.3  <=>  2 * S >  2 * D * atanh(0.3) / 100 = 68.4038...
\*   trend_strength < -0.3  <=>  2 * S < -68.4038...
get_trend_strength(df, idx) ==
    IF idx < TrendWindow THEN 0 ELSE SlopeNum(df, idx, 0)

\* trend_strength > 0.3 and < -0.3 on the integer get_trend_strength returns
TrendCut == 68
TrendGT03(ts) == ts > TrendCut
TrendLT03(ts) == ts < -TrendCut

----------------------------------------------------------------------------
(* VolatilityIndicators *)

RECURSIVE CountLE(_, _, _, _)
\* how many of the ATR values of rows lo .. hi-1 are <= v
CountLE(df, lo, hi, v) ==
    IF lo >= hi THEN 0
    ELSE (IF iloc(df, lo).ATR <= v THEN 1 ELSE 0) + CountLE(df, lo + 1, hi, v)

\* pd.Series(x).rank(pct=True).iloc[-1] over the window of regime_window
\* rows ending at idx, as <<2 * rank, count>>: the rank of a value is the
\* average of the positions its ties take, ((values below) + 1 + (values
\* at or below)) / 2
atr_percentile(df, idx) ==
    LET lo == idx - regime_window + 1
        v == iloc(df, idx).ATR
    IN <<(CountLE(df, lo, idx + 1, v - 1) + 1) + CountLE(df, lo, idx + 1, v),
         regime_window>>

\* _calculate_volatility_regime with atr_percentile < 0.25 for <= 0.25
_calculate_volatility_regime_strict(df, idx) ==
    IF idx < regime_window - 1 THEN 1
    ELSE LET p == atr_percentile(df, idx)
         IN IF 4 * p[1] >= 3 * 2 * p[2] THEN 2
            ELSE IF 4 * p[1] < 2 * p[2] THEN 0
            ELSE 1

\* the Volatility_Regime column at idx: 1 unless the percentile is <= 0.25
\* (then 0) or >= 0.75 (then 2, assigned last); rolling(window=100) has no
\* value before the window is full, and both comparisons are then False
_calculate_volatility_regime(df, idx) ==
    IF idx < regime_window - 1 THEN 1
    ELSE LET p == atr_percentile(df, idx)
         IN IF 4 * p[1] >= 3 * 2 * p[2] THEN 2
            ELSE IF 4 * p[1] <= 2 * p[2] THEN 0
            ELSE 1

\* regime_multipliers 1.5, 1.0, 0.75 in quarters
regime_multipliers(regime) ==
    CASE regime = 0 -> 6 [] regime = 1 -> 4 [] regime = 2 -> 3

\* get_dynamic_stops without the minimum_atr_value floor
get_dynamic_stops_no_floor(df, idx) ==
    IF idx < 1 THEN <<"None", "None">> ELSE
    LET current_atr == iloc(df, idx).ATR
        regime == iloc(df, idx).Volatility_Regime
        stop_distance ==
            (current_atr * TicksPerMilli * base_multiplier
                * regime_multipliers(regime)) \div 4
        take_profit_distance == stop_distance * 2
    IN <<stop_distance, take_profit_distance>>

\* get_dynamic_stops with the target at 4 ATR whatever the regime
get_dynamic_stops_flat_target(df, idx) ==
    IF idx < 1 THEN <<"None", "None">> ELSE
    LET current_atr == Max(iloc(df, idx).ATR, minimum_atr_value)
        regime == iloc(df, idx).Volatility_Regime
        stop_distance ==
            (current_atr * TicksPerMilli * base_multiplier
                * regime_multipliers(regime)) \div 4
        take_profit_distance == current_atr * TicksPerMilli * 4
    IN <<stop_distance, take_profit_distance>>

\* (stop_distance, take_profit_distance) in ticks
get_dynamic_stops(df, idx) ==
    IF idx < 1 THEN <<"None", "None">> ELSE
    LET current_atr == Max(iloc(df, idx).ATR, minimum_atr_value)
        regime == iloc(df, idx).Volatility_Regime
        stop_distance ==
            (current_atr * TicksPerMilli * base_multiplier
                * regime_multipliers(regime)) \div 4
        take_profit_distance == stop_distance * 2
    IN <<stop_distance, take_profit_distance>>

\* regime_adjustments 1.2, 1.0, 0.8 in tenths
regime_adjustments(regime) ==
    CASE regime = 0 -> 12 [] regime = 1 -> 10 [] regime = 2 -> 8

\* min_size = 0.25 and max_size = 2.0 in SizeScale units
min_size == 250
max_size == 2000

\* get_volatility_adjusted_position_size without the [min_size, max_size]
\* clamp
get_volatility_adjusted_position_size_unclamped(df, idx, base_position) ==
    IF idx < volatility_lookback THEN base_position
    ELSE LET current_vol == iloc(df, idx).Historical_Volatility
             sum_vol == SumCol(df, idx - volatility_lookback, idx,
                               "Historical_Volatility")
             regime == iloc(df, idx).Volatility_Regime
         IN (base_position * sum_vol * regime_adjustments(regime))
            \div (volatility_lookback * Max(current_vol, 1) * 10)

\* base_position * (avg_vol / max(current_vol, 0.001)) * regime adjustment,
\* clamped to [min_size, max_size]; in SizeScale units, truncated
get_volatility_adjusted_position_size(df, idx, base_position) ==
    IF idx < volatility_lookback THEN base_position
    ELSE LET current_vol == iloc(df, idx).Historical_Volatility
             sum_vol == SumCol(df, idx - volatility_lookback, idx,
                               "Historical_Volatility")
             regime == iloc(df, idx).Volatility_Regime
             adjusted_position ==
                 (base_position * sum_vol * regime_adjustments(regime))
                 \div (volatility_lookback * Max(current_vol, 1) * 10)
         IN Max(Min(adjusted_position, max_size), min_size)

----------------------------------------------------------------------------
(* EntryRules *)

\* check_entry_signals whose bearish side leaves the trend test out
check_entry_signals_bearish_untrended(df, idx) ==
    IF idx < EntryHistory THEN <<FALSE, FALSE>>
    ELSE LET engulf == is_engulfing(df, idx)
             doji == is_doji(df, idx)
             hammer == is_hammer(df, idx)
             shooting_star == is_shooting_star(df, idx)
             marubozu == is_marubozu(df, idx)
             breakout == is_breakout_candle(df, idx)
             momentum_confirmed == is_momentum_confirmed(df, idx)
             momentum_score == calculate_momentum_score(df, idx)
             indicator_signals == get_momentum_signals(df, idx)
             trend_strength == get_trend_strength(df, idx)
             bullish_entry ==
                 /\ \/ engulf[1]
                    \/ (doji /\ FracGT(momentum_score, 0))
                    \/ hammer
                    \/ marubozu[1]
                    \/ breakout[1]
                 /\ momentum_confirmed
                 /\ TrendGT03(trend_strength)
                 /\ ~indicator_signals.rsi_overbought
             bearish_entry ==
                 /\ \/ engulf[2]
                    \/ (doji /\ FracLT(momentum_score, 0))
                    \/ shooting_star
                    \/ marubozu[2]
                    \/ breakout[2]
                 /\ momentum_confirmed
                 /\ ~indicator_signals.rsi_oversold
         IN <<bullish_entry, bearish_entry>>

\* check_entry_signals letting a doji count whatever the momentum score
check_entry_signals_any_doji(df, idx) ==
    IF idx < EntryHistory THEN <<FALSE, FALSE>>
    ELSE LET engulf == is_engulfing(df, idx)
             doji == is_doji(df, idx)
             hammer == is_hammer(df, idx)
             shooting_star == is_shooting_star(df, idx)
             marubozu == is_marubozu(df, idx)
             breakout == is_breakout_candle(df, idx)
             momentum_confirmed == is_momentum_confirmed(df, idx)
             indicator_signals == get_momentum_signals(df, idx)
             trend_strength == get_trend_strength(df, idx)
             bullish_entry ==
                 /\ engulf[1] \/ doji \/ hammer \/ marubozu[1] \/ breakout[1]
                 /\ momentum_confirmed
                 /\ TrendGT03(trend_strength)
                 /\ ~indicator_signals.rsi_overbought
             bearish_entry ==
                 /\ \/ engulf[2] \/ doji \/ shooting_star
                    \/ marubozu[2] \/ breakout[2]
                 /\ momentum_confirmed
                 /\ TrendLT03(trend_strength)
                 /\ ~indicator_signals.rsi_oversold
         IN <<bullish_entry, bearish_entry>>

\* (bullish_entry, bearish_entry)
check_entry_signals(df, idx) ==
    IF idx < EntryHistory THEN <<FALSE, FALSE>>
    ELSE LET engulf == is_engulfing(df, idx)
             doji == is_doji(df, idx)
             hammer == is_hammer(df, idx)
             shooting_star == is_shooting_star(df, idx)
             marubozu == is_marubozu(df, idx)
             breakout == is_breakout_candle(df, idx)
             momentum_confirmed == is_momentum_confirmed(df, idx)
             momentum_score == calculate_momentum_score(df, idx)
             indicator_signals == get_momentum_signals(df, idx)
             trend_strength == get_trend_strength(df, idx)
             bullish_entry ==
                 /\ \/ engulf[1]
                    \/ (doji /\ FracGT(momentum_score, 0))
                    \/ hammer
                    \/ marubozu[1]
                    \/ breakout[1]
                 /\ momentum_confirmed
                 /\ TrendGT03(trend_strength)
                 /\ ~indicator_signals.rsi_overbought
             bearish_entry ==
                 /\ \/ engulf[2]
                    \/ (doji /\ FracLT(momentum_score, 0))
                    \/ shooting_star
                    \/ marubozu[2]
                    \/ breakout[2]
                 /\ momentum_confirmed
                 /\ TrendLT03(trend_strength)
                 /\ ~indicator_signals.rsi_oversold
         IN <<bullish_entry, bearish_entry>>

\* vol_adjusted_size * (0.5 + 0.5 * abs(momentum_score)), in SizeScale units
calculate_position_size(df, idx, base_position) ==
    LET q == calculate_momentum_score(df, idx)
        vol_adjusted_size ==
            get_volatility_adjusted_position_size(df, idx, base_position)
    IN (vol_adjusted_size * (q[2] + Abs(q[1]))) \div (2 * q[2])

----------------------------------------------------------------------------
(* ExitRules *)

\* check_exit_signals taking the momentum score alone as a reversal
check_exit_signals_score_only(df, idx, position_type) ==
    IF idx < 1 THEN FALSE
    ELSE LET engulf == is_engulfing(df, idx)
             shooting_star == is_shooting_star(df, idx)
             hammer == is_hammer(df, idx)
             momentum_score == calculate_momentum_score(df, idx)
             indicator_signals == get_momentum_signals(df, idx)
         IN IF position_type = "long"
            THEN \/ engulf[2]
                 \/ shooting_star
                 \/ FracLT(momentum_score, -3)
                 \/ indicator_signals.macd_bearish_cross
                 \/ indicator_signals.rsi_overbought
            ELSE \/ engulf[1]
                 \/ hammer
                 \/ FracGT(momentum_score, 3)
                 \/ indicator_signals.macd_bullish_cross
                 \/ indicator_signals.rsi_oversold

\* should_exit
check_exit_signals(df, idx, position_type) ==
    IF idx < 1 THEN FALSE
    ELSE LET engulf == is_engulfing(df, idx)
             shooting_star == is_shooting_star(df, idx)
             hammer == is_hammer(df, idx)
             momentum_score == calculate_momentum_score(df, idx)
             trend_strength == get_trend_strength(df, idx)
             indicator_signals == get_momentum_signals(df, idx)
         IN IF position_type = "long"
            THEN \/ engulf[2]
                 \/ shooting_star
                 \/ (FracLT(momentum_score, -3) /\ trend_strength < 0)
                 \/ indicator_signals.macd_bearish_cross
                 \/ indicator_signals.rsi_overbought
            ELSE \/ engulf[1]
                 \/ hammer
                 \/ (FracGT(momentum_score, 3) /\ trend_strength > 0)
                 \/ indicator_signals.macd_bullish_cross
                 \/ indicator_signals.rsi_oversold

\* calculate_trailing_stop returning trail_level without the entry boundary
calculate_trailing_stop_unclamped(df, idx, position_type, entry_price) ==
    IF idx < 1 THEN entry_price
    ELSE LET stop_distance == get_dynamic_stops(df, idx)[1]
             current_price == iloc(df, idx).Close * PriceScale
         IN IF position_type = "long"
            THEN current_price - (stop_distance * 3) \div 2
            ELSE current_price + (stop_distance * 3) \div 2

\* the trailing stop level in ticks; entry_price is in ticks
calculate_trailing_stop(df, idx, position_type, entry_price) ==
    IF idx < 1 THEN entry_price
    ELSE LET stop_distance == get_dynamic_stops(df, idx)[1]
             current_price == iloc(df, idx).Close * PriceScale
         IN IF position_type = "long"
            THEN Max(current_price - (stop_distance * 3) \div 2,
                     (entry_price * 99) \div 100)
            ELSE Min(current_price + (stop_distance * 3) \div 2,
                     (entry_price * 101) \div 100)

----------------------------------------------------------------------------
(* BacktestEngine *)

\* The engine's fields as one record e: equity, current_position (<<>> for
\* None, <<p>> for a Position p), trades (the ledger), equity_curve,
\* trade_count.

InitialEquity == initial_capital * PriceScale * SizeScale

\* reset leaving the open position as it is
reset_keep_position(e) ==
    [e EXCEPT !.equity = InitialEquity,
              !.trades = <<>>,
              !.equity_curve = <<>>,
              !.trade_count = 0]

\* reset leaving the trade counter as it is
reset_keep_count(e) ==
    [e EXCEPT !.equity = InitialEquity,
              !.current_position = <<>>,
              !.trades = <<>>,
              !.equity_curve = <<>>]

reset(e) ==
    [e EXCEPT !.equity = InitialEquity,
              !.current_position = <<>>,
              !.trades = <<>>,
              !.equity_curve = <<>>,
              !.trade_count = 0]

\* _open_position numbering the trade before the counter is advanced
_open_position_stale_id(e, type, price, time, size, stop_loss, take_profit) ==
    [e EXCEPT !.trade_count = e.trade_count + 1,
              !.current_position =
                  << [type |-> type, entry_price |-> price, entry_time |-> time,
                      size |-> size, stop_loss |-> stop_loss,
                      take_profit |-> take_profit, trailing_stop |-> stop_loss,
                      trade_id |-> e.trade_count] >>]

_open_position(e, type, price, time, size, stop_loss, take_profit) ==
    [e EXCEPT !.trade_count = e.trade_count + 1,
              !.current_position =
                  << [type |-> type, entry_price |-> price, entry_time |-> time,
                      size |-> size, stop_loss |-> stop_loss,
                      take_profit |-> take_profit, trailing_stop |-> stop_loss,
                      trade_id |-> e.trade_count + 1] >>]

\* _close_position with the long formula for both sides
_close_position_long_pnl(e, exit_price, exit_time, exit_reason) ==
    LET position == e.current_position[1]
        pnl == (exit_price - position.entry_price) * position.size
        trade == [id |-> position.trade_id, type |-> position.type,
                  entry_time |-> position.entry_time,
                  entry_price |-> position.entry_price,
                  exit_time |-> exit_time, exit_price |-> exit_price,
                  size |-> position.size, pnl |-> pnl,
                  exit_reason |-> exit_reason]
    IN [e EXCEPT !.equity = e.equity + pnl,
                 !.trades = Append(e.trades, trade),
                 !.current_position = <<>>]

\* _close_position putting the new record at the head of the ledger
_close_position_insert_first(e, exit_price, exit_time, exit_reason) ==
    LET position == e.current_position[1]
        pnl == IF position.type = "long"
               THEN (exit_price - position.entry_price) * position.size
               ELSE (position.entry_price - exit_price) * position.size
        trade == [id |-> position.trade_id, type |-> position.type,
                  entry_time |-> position.entry_time,
                  entry_price |-> position.entry_price,
                  exit_time |-> exit_time, exit_price |-> exit_price,
                  size |-> position.size, pnl |-> pnl,
                  exit_reason |-> exit_reason]
    IN [e EXCEPT !.equity = e.equity + pnl,
                 !.trades = <<trade>> \o e.trades,
                 !.current_position = <<>>]

\* _close_position without the equity update
_close_position_no_equity(e, exit_price, exit_time, exit_reason) ==
    LET position == e.current_position[1]
        pnl == IF position.type = "long"
               THEN (exit_price - position.entry_price) * position.size
               ELSE (position.entry_price - exit_price) * position.size
        trade == [id |-> position.trade_id, type |-> position.type,
                  entry_time |-> position.entry_time,
                  entry_price |-> position.entry_price,
                  exit_time |-> exit_time, exit_price |-> exit_price,
                  size |-> position.size, pnl |-> pnl,
                  exit_reason |-> exit_reason]
    IN [e EXCEPT !.trades = Append(e.trades, trade),
                 !.current_position = <<>>]

_close_position(e, exit_price, exit_time, exit_reason) ==
    LET position == e.current_position[1]
        pnl == IF position.type = "long"
               THEN (exit_price - position.entry_price) * position.size
               ELSE (position.entry_price - exit_price) * position.size
        trade == [id |-> position.trade_id, type |-> position.type,
                  entry_time |-> position.entry_time,
                  entry_price |-> position.entry_price,
                  exit_time |-> exit_time, exit_price |-> exit_price,
                  size |-> position.size, pnl |-> pnl,
                  exit_reason |-> exit_reason]
    IN [e EXCEPT !.equity = e.equity + pnl,
                 !.trades = Append(e.trades, trade),
                 !.current_position = <<>>]

\* _check_position_exit testing the bar against the stop_loss set at the
\* entry and closing there
_check_position_exit_fixed_stop(e, df, idx) ==
    LET current_bar == iloc(df, idx)
        old == e.current_position[1]
        new_trailing_stop ==
            calculate_trailing_stop(df, idx, old.type, old.entry_price)
        position == [old EXCEPT !.trailing_stop = new_trailing_stop]
        e1 == [e EXCEPT !.current_position = <<position>>]
        hit_stop ==
            \/ position.type = "long"
               /\ current_bar.Low * PriceScale <= position.stop_loss
            \/ position.type = "short"
               /\ current_bar.High * PriceScale >= position.stop_loss
        hit_target ==
            \/ position.type = "long"
               /\ current_bar.High * PriceScale >= position.take_profit
            \/ position.type = "short"
               /\ current_bar.Low * PriceScale <= position.take_profit
        should_exit == check_exit_signals(df, idx, position.type)
    IN IF hit_stop \/ hit_target \/ should_exit
       THEN _close_position(e1,
                IF hit_stop THEN position.stop_loss
                ELSE IF hit_target THEN position.take_profit
                ELSE current_bar.Close * PriceScale,
                idx,
                IF hit_stop THEN "Stop"
                ELSE IF hit_target THEN "Target" ELSE "Signal")
       ELSE e1

\* _check_position_exit also moving take_profit to the bar's distance
_check_position_exit_moving_target(e, df, idx) ==
    LET current_bar == iloc(df, idx)
        old == e.current_position[1]
        new_trailing_stop ==
            calculate_trailing_stop(df, idx, old.type, old.entry_price)
        take_profit_distance == get_dynamic_stops(df, idx)[2]
        position ==
            [old EXCEPT !.trailing_stop = new_trailing_stop,
                        !.take_profit =
                            IF old.type = "long"
                            THEN old.entry_price + take_profit_distance
                            ELSE old.entry_price - take_profit_distance]
        e1 == [e EXCEPT !.current_position = <<position>>]
        hit_stop ==
            \/ position.type = "long"
               /\ current_bar.Low * PriceScale <= position.trailing_stop
            \/ position.type = "short"
               /\ current_bar.High * PriceScale >= position.trailing_stop
        hit_target ==
            \/ position.type = "long"
               /\ current_bar.High * PriceScale >= position.take_profit
            \/ position.type = "short"
               /\ current_bar.Low * PriceScale <= position.take_profit
        should_exit == check_exit_signals(df, idx, position.type)
    IN IF hit_stop \/ hit_target \/ should_exit
       THEN _close_position(e1,
                IF hit_stop THEN position.trailing_stop
                ELSE IF hit_target THEN position.take_profit
                ELSE current_bar.Close * PriceScale,
                idx,
                IF hit_stop THEN "Stop"
                ELSE IF hit_target THEN "Target" ELSE "Signal")
       ELSE e1

\* _check_position_exit testing the target before the stop
_check_position_exit_target_first(e, df, idx) ==
    LET current_bar == iloc(df, idx)
        old == e.current_position[1]
        new_trailing_stop ==
            calculate_trailing_stop(df, idx, old.type, old.entry_price)
        position == [old EXCEPT !.trailing_stop = new_trailing_stop]
        e1 == [e EXCEPT !.current_position = <<position>>]
        hit_stop ==
            \/ position.type = "long"
               /\ current_bar.Low * PriceScale <= position.trailing_stop
            \/ position.type = "short"
               /\ current_bar.High * PriceScale >= position.trailing_stop
        hit_target ==
            \/ position.type = "long"
               /\ current_bar.High * PriceScale >= position.take_profit
            \/ position.type = "short"
               /\ current_bar.Low * PriceScale <= position.take_profit
        should_exit == check_exit_signals(df, idx, position.type)
    IN IF hit_stop \/ hit_target \/ should_exit
       THEN _close_position(e1,
                IF hit_target THEN position.take_profit
                ELSE IF hit_stop THEN position.trailing_stop
                ELSE current_bar.Close * PriceScale,
                idx,
                IF hit_target THEN "Target"
                ELSE IF hit_stop THEN "Stop" ELSE "Signal")
       ELSE e1

_check_position_exit(e, df, idx) ==
    LET current_bar == iloc(df, idx)
        old == e.current_position[1]
        new_trailing_stop ==
            calculate_trailing_stop(df, idx, old.type, old.entry_price)
        position == [old EXCEPT !.trailing_stop = new_trailing_stop]
        e1 == [e EXCEPT !.current_position = <<position>>]
        hit_stop ==
            \/ position.type = "long"
               /\ current_bar.Low * PriceScale <= position.trailing_stop
            \/ position.type = "short"
               /\ current_bar.High * PriceScale >= position.trailing_stop
        hit_target ==
            \/ position.type = "long"
               /\ current_bar.High * PriceScale >= position.take_profit
            \/ position.type = "short"
               /\ current_bar.Low * PriceScale <= position.take_profit
        should_exit == check_exit_signals(df, idx, position.type)
    IN IF hit_stop \/ hit_target \/ should_exit
       THEN _close_position(e1,
                IF hit_stop THEN position.trailing_stop
                ELSE IF hit_target THEN position.take_profit
                ELSE current_bar.Close * PriceScale,
                idx,
                IF hit_stop THEN "Stop"
                ELSE IF hit_target THEN "Target" ELSE "Signal")
       ELSE e1

\* _check_new_entry_given taking the side from bearish first
_check_new_entry_given_short_first(e, df, idx, entry_signals) ==
    LET bullish == entry_signals[1]
        bearish == entry_signals[2]
    IN IF bullish \/ bearish
       THEN LET position_type == IF bearish THEN "short" ELSE "long"
                entry_price == iloc(df, idx).Close * PriceScale
                size == calculate_position_size(df, idx, position_size)
                stops == get_dynamic_stops(df, idx)
                stop_distance == stops[1]
                take_profit_distance == stops[2]
                stop_loss == IF position_type = "long"
                             THEN entry_price - stop_distance
                             ELSE entry_price + stop_distance
                take_profit == IF position_type = "long"
                               THEN entry_price + take_profit_distance
                               ELSE entry_price - take_profit_distance
            IN _open_position(e, position_type, entry_price, idx, size,
                              stop_loss, take_profit)
       ELSE e

\* _check_new_entry from the point where self.entry_rules (an object the
\* engine is constructed with) has returned entry_signals = (bullish,
\* bearish) for the bar
_check_new_entry_given(e, df, idx, entry_signals) ==
    LET bullish == entry_signals[1]
        bearish == entry_signals[2]
    IN IF bullish \/ bearish
       THEN LET position_type == IF bullish THEN "long" ELSE "short"
                entry_price == iloc(df, idx).Close * PriceScale
                size == calculate_position_size(df, idx, position_size)
                stops == get_dynamic_stops(df, idx)
                stop_distance == stops[1]
                take_profit_distance == stops[2]
                stop_loss == IF position_type = "long"
                             THEN entry_price - stop_distance
                             ELSE entry_price + stop_distance
                take_profit == IF position_type = "long"
                               THEN entry_price + take_profit_distance
                               ELSE entry_price - take_profit_distance
            IN _open_position(e, position_type, entry_price, idx, size,
                              stop_loss, take_profit)
       ELSE e

_check_new_entry(e, df, idx) ==
    _check_new_entry_given(e, df, idx, check_entry_signals(df, idx))

\* process_bar putting a position through the exit tests on the bar that
\* opened it
process_bar_enter_then_exit(e, df, idx) ==
    IF e.current_position # <<>>
    THEN [e |-> _check_position_exit(e, df, idx),
          called |-> {"_check_position_exit"}]
    ELSE IF idx >= WarmUp
    THEN LET e1 == _check_new_entry(e, df, idx)
         IN IF e1.current_position # <<>>
            THEN [e |-> _check_position_exit(e1, df, idx),
                  called |-> {"_check_new_entry", "_check_position_exit"}]
            ELSE [e |-> e1, called |-> {"_check_new_entry"}]
    ELSE [e |-> e, called |-> {}]

\* process_bar evaluating an entry on the bar that closed the position
process_bar_reenter(e, df, idx) ==
    IF e.current_position # <<>>
    THEN LET e1 == _check_position_exit(e, df, idx)
         IN IF e1.current_position = <<>> /\ idx >= WarmUp
            THEN [e |-> _check_new_entry(e1, df, idx),
                  called |-> {"_check_position_exit", "_check_new_entry"}]
            ELSE [e |-> e1, called |-> {"_check_position_exit"}]
    ELSE IF idx >= WarmUp
    THEN [e |-> _check_new_entry(e, df, idx), called |-> {"_check_new_entry"}]
    ELSE [e |-> e, called |-> {}]

\* process_bar without the idx >= 20 gate
process_bar_no_gate(e, df, idx) ==
    IF e.current_position # <<>>
    THEN [e |-> _check_position_exit(e, df, idx),
          called |-> {"_check_position_exit"}]
    ELSE [e |-> _check_new_entry(e, df, idx), called |-> {"_check_new_entry"}]

\* process_bar with the entry test in an `if` of its own instead of `elif`
process_bar_if(e, df, idx) ==
    LET e1 == IF e.current_position # <<>>
              THEN _check_position_exit(e, df, idx) ELSE e
        c1 == IF e.current_position # <<>>
              THEN {"_check_position_exit"} ELSE {}
    IN IF idx >= WarmUp
       THEN [e |-> _check_new_entry(e1, df, idx),
             called |-> c1 \cup {"_check_new_entry"}]
       ELSE [e |-> e1, called |-> c1]

\* the engine after the bar and the set of handlers the bar was passed to
process_bar(e, df, idx) ==
    IF e.current_position # <<>>
    THEN [e |-> _check_position_exit(e, df, idx),
          called |-> {"_check_position_exit"}]
    ELSE IF idx >= WarmUp
    THEN [e |-> _check_new_entry(e, df, idx), called |-> {"_check_new_entry"}]
    ELSE [e |-> e, called |-> {}]

RECURSIVE SumPnl(_)
SumPnl(ts) == IF ts = <<>> THEN 0 ELSE ts[1].pnl + SumPnl(Tail(ts))

RECURSIVE Wins(_)
Wins(ts) ==
    IF ts = <<>> THEN 0
    ELSE (IF ts[1].pnl > 0 THEN 1 ELSE 0) + Wins(Tail(ts))

RECURSIVE DrawdownMin(_, _, _)
\* min over i >= k of curve[i] - max(curve[1..i]), given m = max(curve[1..k-1])
DrawdownMin(curve, k, m) ==
    IF k > Len(curve) THEN 0
    ELSE LET m1 == Max(m, curve[k])
         IN Min(curve[k] - m1, DrawdownMin(curve, k + 1, m1))

_calculate_max_drawdown(curve) == Abs(DrawdownMin(curve, 1, curve[1]))

\* the summary, with its quotients as <<numerator, denominator>>; dividing
\* by len(self.trades) raises ZeroDivisionError when the ledger is empty
_generate_results(e) ==
    IF Len(e.trades) = 0
    THEN [status |-> "ZeroDivisionError"]
    ELSE [status |-> "ok",
          initial_capital |-> InitialEquity,
          final_equity |-> e.equity,
          total_return |-> <<e.equity - InitialEquity, InitialEquity>>,
          trades |-> e.trades,
          equity_curve |-> e.equity_curve,
          trade_count |-> Len(e.trades),
          win_rate |-> <<Wins(e.trades), Len(e.trades)>>,
          average_trade |-> <<SumPnl(e.trades), Len(e.trades)>>,
          max_drawdown |-> _calculate_max_drawdown(e.equity_curve)]

----------------------------------------------------------------------------
(* The rows a frame is built from *)

\* rows after the flat prefix; F is the flat close
TailRowsAt(F) ==
    { \* bullish marubozu on doubled volume
      Row(F, F + 2, F, F + 2, 2, 1000, 50, 0, 1, 200),
      \* the same on a bar with zero historical volatility
      Row(F, F + 2, F, F + 2, 2, 1000, 50, 0, 0, 0),
      \* bearish marubozu on doubled volume
      Row(F, F, F - 2, F - 2, 2, 1000, 50, 0, 1, 200),
      \* the same in the high regime with a quarter of the volatility
      Row(F, F, F - 2, F - 2, 2, 1000, 50, 0, 2, 50),
      \* quiet rise above the long entry
      Row(F + 3, F + 5, F + 3, F + 4, 1, 1000, 50, 0, 1, 200),
      \* quiet pull-back
      Row(F + 4, F + 4, F + 3, F + 3, 1, 1000, 50, 0, 1, 200),
      \* quiet fall below the short entry
      Row(F - 4, F - 4, F - 5, F - 5, 1, 1000, 50, 0, 1, 200),
      \* quiet bounce
      Row(F - 4, F - 3, F - 4, F - 3, 1, 1000, 50, 0, 1, 200),
      \* wide bar through both the stop and the target of either side
      Row(F, F + 7, F - 7, F, 1, 1000, 50, 0, 1, 200),
      \* rise through the long target only
      Row(F + 4, F + 7, F + 4, F + 6, 1, 1000, 50, 0, 1, 200),
      \* fall through the short target only
      Row(F - 4, F - 4, F - 7, F - 6, 1, 1000, 50, 0, 1, 200),
      \* overbought rise
      Row(F + 3, F + 4, F + 3, F + 4, 1, 1000, 80, 0, 1, 200),
      \* oversold fall
      Row(F - 3, F - 3, F - 4, F - 4, 1, 1000, 20, 0, 1, 200),
      \* rise on a zero ATR in the high regime
      Row(F + 3, F + 4, F + 3, F + 4, 1, 0, 50, 0, 2, 200) }

TailRows == TailRowsAt(FlatClose)

----------------------------------------------------------------------------
(* State *)

VARIABLES
    equity,            \* self.equity
    current_position,  \* self.current_position: <<>> or <<Position>>
    trades,            \* self.trades
    equity_curve,      \* self.equity_curve
    trade_count,       \* self.trade_count
    df,                \* the rows of the frame read so far
    idx,               \* the loop variable of run: the next bar to process
    pc,                \* "ready", "loop" (inside run) or "done" (run returned)
    results,           \* what the last run returned or raised
    called,            \* the handlers process_bar passed the last bar to
    runs,              \* how many times run was called on this frame
    first,             \* ledger, curve and results of the first run on it
    config,            \* the StrategyConfig main validates
    signals            \* what the function called on the last bar returned,
                       \* in the specifications that call one directly

vars == <<equity, current_position, trades, equity_curve, trade_count,
          df, idx, pc, results, called, runs, first, config, signals>>

Engine ==
    [equity |-> equity, current_position |-> current_position,
     trades |-> trades, equity_curve |-> equity_curve,
     trade_count |-> trade_count]

\* the engine's fields after the step are those of the record e
SetEngine(e) ==
    /\ equity' = e.equity
    /\ current_position' = e.current_position
    /\ trades' = e.trades
    /\ equity_curve' = e.equity_curve
    /\ trade_count' = e.trade_count

NoResults == [status |-> "none"]

NoSignals == [of |-> "none"]

\* DEFAULT_CONFIG: the fields validate reads, in tenths
DEFAULT_CONFIG ==
    [position_size |-> 1, max_position_size |-> 2,
     stop_loss_atr |-> 20, take_profit_atr |-> 40,
     trade_direction |-> "both"]

\* a BacktestEngine as constructed: __init__ ends in reset()
Init ==
    /\ equity = InitialEquity
    /\ current_position = <<>>
    /\ trades = <<>>
    /\ equity_curve = <<>>
    /\ trade_count = 0
    /\ df = <<>>
    /\ idx = 0
    /\ pc = "ready"
    /\ results = NoResults
    /\ called = {}
    /\ runs = 0
    /\ first = NoResults
    /\ config = DEFAULT_CONFIG
    /\ signals = NoSignals

\* the head of run: self.reset(), and the loop starts at the first row
RunStart ==
    /\ SetEngine(reset(Engine))
    /\ idx' = 0
    /\ pc' = "loop"
    /\ results' = NoResults
    /\ called' = {}
    /\ signals' = NoSignals
    /\ UNCHANGED config

\* run(df) is called on a new frame
Run ==
    /\ pc \in {"ready", "done"}
    /\ RunStart
    /\ df' = <<>>
    /\ runs' = 1
    /\ first' = NoResults

\* the loop body sampling equity marked to the bar's Close
LoopBody_marked(d) ==
    LET r == process_bar(Engine, d, idx)
        p == r.e.current_position
        mark == iloc(d, idx).Close * PriceScale
        unrealised ==
            IF p = <<>> THEN 0
            ELSE IF p[1].type = "long"
            THEN (mark - p[1].entry_price) * p[1].size
            ELSE (p[1].entry_price - mark) * p[1].size
        equity_snapshot == r.e.equity + unrealised
    IN /\ SetEngine([r.e EXCEPT
                        !.equity_curve = Append(@, equity_snapshot)])
       /\ called' = r.called
       /\ idx' = idx + 1
       /\ UNCHANGED <<pc, results, runs, first, config, signals>>

\* one pass of the loop on frame d: process_bar, then the curve sample
LoopBody(d) ==
    LET r == process_bar(Engine, d, idx)
        equity_snapshot == r.e.equity
    IN /\ SetEngine([r.e EXCEPT
                        !.equity_curve = Append(@, equity_snapshot)])
       /\ called' = r.called
       /\ idx' = idx + 1
       /\ UNCHANGED <<pc, results, runs, first, config, signals>>

\* the frame has a further row: the loop body runs on it
NextBar ==
    /\ pc = "loop"
    /\ runs = 1
    /\ idx = Len(df)
    /\ Len(df) < FlatBars + MaxTail
    /\ \E row \in (IF idx < FlatBars THEN {FlatRow} ELSE TailRows) :
          /\ df' = Append(df, row)
          /\ LoopBody(Append(df, row))

\* the return of run closing a position that is still open at the Close of
\* the last bar before it summarises
Finish_close_open ==
    /\ pc = "loop"
    /\ idx = Len(df)
    /\ LET e == IF current_position # <<>> /\ idx > 0
                THEN _close_position(Engine,
                                     iloc(df, idx - 1).Close * PriceScale,
                                     idx - 1, "End")
                ELSE Engine
       IN /\ SetEngine(e)
          /\ results' = _generate_results(e)
    /\ pc' = "done"
    /\ UNCHANGED <<df, idx, called, runs, first, config, signals>>

\* the frame has no further row: run returns _generate_results()
Finish ==
    /\ pc = "loop"
    /\ idx = Len(df)
    /\ results' = _generate_results(Engine)
    /\ pc' = "done"
    /\ UNCHANGED <<equity, current_position, trades, equity_curve,
                   trade_count, df, idx, called, runs, first, config,
                   signals>>

\* run(df) is called a second time on the same frame
Rerun ==
    /\ pc = "done"
    /\ runs = 1
    /\ Len(df) <= FlatBars + MaxRerunTail
    /\ first' = [trades |-> trades, equity_curve |-> equity_curve,
                 results |-> results]
    /\ RunStart
    /\ runs' = 2
    /\ UNCHANGED df

\* the loop body of the second run
ReplayBar ==
    /\ pc = "loop"
    /\ runs = 2
    /\ idx < Len(df)
    /\ LoopBody(df)
    /\ UNCHANGED df

Next == Run \/ NextBar \/ Finish

Spec == Init /\ [][Next]_vars

NextTwice == Run \/ NextBar \/ Finish \/ Rerun \/ ReplayBar

SpecTwice == Init /\ [][NextTwice]_vars

----------------------------------------------------------------------------
(* main: the configuration is validated, then the backtest is run *)

\* validate with >= between take_profit_atr and stop_loss_atr
validate_ge(c) ==
    /\ 0 < c.position_size /\ c.position_size <= c.max_position_size
    /\ c.stop_loss_atr > 0
    /\ c.take_profit_atr >= c.stop_loss_atr
    /\ c.trade_direction \in {"long", "short", "both"}

\* StrategyConfig.validate: TRUE if it returns True, FALSE if one of its
\* assert statements raises AssertionError
validate(c) ==
    /\ 0 < c.position_size /\ c.position_size <= c.max_position_size
    /\ c.stop_loss_atr > 0
    /\ c.take_profit_atr > c.stop_loss_atr
    /\ c.trade_direction \in {"long", "short", "both"}

\* the configurations main is started with
Configs ==
    [position_size : {0, 1, 2, 3}, max_position_size : {1, 2},
     stop_loss_atr : {-10, 0, 20}, take_profit_atr : {20, 40},
     trade_direction : {"long", "short", "both", "flat"}]

\* main has loaded its configuration; no engine has run
InitMain ==
    /\ equity = InitialEquity
    /\ current_position = <<>>
    /\ trades = <<>>
    /\ equity_curve = <<>>
    /\ trade_count = 0
    /\ df = <<>>
    /\ idx = 0
    /\ pc = "main"
    /\ results = NoResults
    /\ called = {}
    /\ runs = 0
    /\ first = NoResults
    /\ config \in Configs
    /\ signals = NoSignals

\* config.validate(); run_backtest(config) follows only if it returns
main ==
    /\ pc = "main"
    /\ pc' = IF validate(config) THEN "ready" ELSE "AssertionError"
    /\ UNCHANGED <<equity, current_position, trades, equity_curve,
                   trade_count, df, idx, results, called, runs, first,
                   config, signals>>

\* a row of the frame run_backtest loaded: the loop body runs on it
MainBar ==
    /\ pc = "loop"
    /\ idx = Len(df)
    /\ Len(df) < MaxMainBars
    /\ df' = Append(df, FlatRow)
    /\ LoopBody(Append(df, FlatRow))

NextMain == main \/ Run \/ MainBar \/ Finish

SpecMain == InitMain /\ [][NextMain]_vars

----------------------------------------------------------------------------
(* The engine constructed with an arbitrary entry composer *)

\* one pass of the loop of run on a further row, the entry composer
\* returning any pair (bullish, bearish) when process_bar consults it
GivenBar ==
    /\ pc = "loop"
    /\ idx = Len(df)
    /\ Len(df) < MaxGivenBars
    /\ \E row \in (IF idx < WarmUp THEN {FlatRow} ELSE TailRows) :
       \E entry_signals \in BOOLEAN \X BOOLEAN :
          LET d == Append(df, row)
              consulted == current_position = <<>> /\ idx >= WarmUp
              r == IF consulted
                   THEN [e |-> _check_new_entry_given(Engine, d, idx,
                                                      entry_signals),
                         called |-> {"_check_new_entry"}]
                   ELSE process_bar(Engine, d, idx)
              equity_snapshot == r.e.equity
          IN /\ df' = d
             /\ SetEngine([r.e EXCEPT
                              !.equity_curve = Append(@, equity_snapshot)])
             /\ called' = r.called
             /\ signals' = IF consulted
                            THEN [of |-> "entry",
                                  bullish |-> entry_signals[1],
                                  bearish |-> entry_signals[2]]
                            ELSE NoSignals
             /\ idx' = idx + 1
             /\ UNCHANGED <<pc, results, runs, first, config>>

NextGiven == Run \/ GivenBar \/ Finish

SpecGiven == Init /\ [][NextGiven]_vars

----------------------------------------------------------------------------
(* The engine run on frames with candles inside the first trend window *)

\* a flat bar, a bullish and a bearish marubozu on doubled volume, a quiet
\* rise, a bullish marubozu on a zero ATR, a dip of a dollar below the long
\* entry, a crash and a surge of 40 percent
EarlyRows ==
    { FlatRow,
      Row(FlatClose, FlatClose + 2, FlatClose, FlatClose + 2, 2, 0, 50,
          0, 1, 200),
      Row(FlatClose + 2, FlatClose + 2, FlatClose + 1, FlatClose + 2, 1,
          1000, 50, 0, 1, 200),
      Row(FlatClose, FlatClose, FlatClose - 40, FlatClose - 40, 1, 1000, 50,
          0, 1, 200),
      Row(FlatClose, FlatClose + 40, FlatClose, FlatClose + 40, 1, 1000, 50,
          0, 1, 200),
      Row(FlatClose, FlatClose + 2, FlatClose, FlatClose + 2, 2, 1000, 50,
          0, 1, 200),
      Row(FlatClose, FlatClose, FlatClose - 2, FlatClose - 2, 2, 1000, 50,
          0, 1, 200),
      Row(FlatClose + 3, FlatClose + 4, FlatClose + 3, FlatClose + 4, 1,
          1000, 50, 0, 1, 200) }

\* the rows of EarlyRows come at the engine's gate (WarmUp), at the last bar
\* before the trend window is full and from there on; the other bars are
\* flat
EarlyBar ==
    /\ pc = "loop"
    /\ runs = 1
    /\ idx = Len(df)
    /\ Len(df) < MaxEarlyBars
    /\ \E row \in (IF idx = WarmUp \/ idx >= TrendWindow - 1
                   THEN EarlyRows ELSE {FlatRow}) :
          /\ df' = Append(df, row)
          /\ LoopBody(Append(df, row))

NextEarly == Run \/ EarlyBar \/ Finish

SpecEarly == Init /\ [][NextEarly]_vars

----------------------------------------------------------------------------
(* EntryRules.check_entry_signals and ExitRules.check_exit_signals called *)
(* bar by bar on a frame                                                   *)

\* FlatBars rows, flat but for the close of the row five before the end
Prefix(c) ==
    [i \in 1..FlatBars |->
        IF i = FlatBars - 4
        THEN Row(c, c, c, c, 1, 1000, 50, 0, 1, 200)
        ELSE FlatRow]

\* no spike, a spike up, a spike down
Prefixes == {Prefix(FlatClose), Prefix(2 * FlatClose), Prefix(FlatClose \div 2)}

\* rows after the prefix; F is the flat close
RuleRowsAt(F) ==
    { \* bullish marubozu on doubled volume
      Row(F, F + 2, F, F + 2, 2, 1000, 50, 0, 1, 200),
      \* the same on plain volume
      Row(F, F + 2, F, F + 2, 1, 1000, 50, 0, 1, 200),
      \* the same overbought
      Row(F, F + 2, F, F + 2, 2, 1000, 80, 0, 1, 200),
      \* a bullish marubozu of one dollar
      Row(F, F + 1, F, F + 1, 2, 1000, 50, 0, 1, 200),
      \* bearish marubozu on doubled volume
      Row(F, F, F - 2, F - 2, 2, 1000, 50, 0, 1, 200),
      \* the same oversold
      Row(F, F, F - 2, F - 2, 2, 1000, 20, 0, 1, 200),
      \* hammer
      Row(F + 1, F + 2, F - 2, F + 2, 2, 1000, 50, 0, 1, 200),
      \* shooting star
      Row(F - 1, F + 2, F - 2, F - 2, 2, 1000, 50, 0, 1, 200),
      \* doji above and below the flat close
      Row(F + 2, F + 3, F + 1, F + 2, 2, 1000, 50, 0, 1, 200),
      Row(F - 2, F - 1, F - 3, F - 2, 2, 1000, 50, 0, 1, 200),
      \* wide falling and rising bars
      Row(F + 1, F + 10, F - 10, F, 1, 1000, 50, 0, 1, 200),
      Row(F - 1, F + 10, F - 10, F, 1, 1000, 50, 0, 1, 200),
      \* rising and falling bars that engulf the body of a wide bar
      Row(F - 1, F + 3, F - 1, F + 2, 2, 1000, 50, 0, 1, 200),
      Row(F + 1, F + 1, F - 3, F - 2, 2, 1000, 50, 0, 1, 200),
      \* a falling hammer that engulfs the body of a wide rising bar
      Row(F + 2, F + 2, F - 11, F - 2, 2, 1000, 50, 0, 1, 200),
      \* flat bars with a positive and a negative MACD histogram
      Row(F, F, F, F, 1, 1000, 50, 1, 1, 200),
      Row(F, F, F, F, 1, 1000, 50, -1, 1, 200),
      \* a crash and a surge of 40 percent
      Row(F, F, F - 40, F - 40, 1, 1000, 50, 0, 1, 200),
      Row(F, F + 40, F, F + 40, 1, 1000, 50, 0, 1, 200) }

RuleRows == RuleRowsAt(FlatClose)

\* a frame of FlatBars rows is given; no bar has been evaluated
InitRules ==
    /\ equity = InitialEquity
    /\ current_position = <<>>
    /\ trades = <<>>
    /\ equity_curve = <<>>
    /\ trade_count = 0
    /\ df \in Prefixes
    /\ idx = FlatBars
    /\ pc = "rules"
    /\ results = NoResults
    /\ called = {}
    /\ runs = 0
    /\ first = NoResults
    /\ config = DEFAULT_CONFIG
    /\ signals = NoSignals

\* the frame has a further row idx: both composers are called on it, the
\* exit composer for either side
EvalBar ==
    /\ pc = "rules"
    /\ idx = Len(df)
    /\ Len(df) < FlatBars + MaxRuleTail
    /\ \E row \in RuleRows :
          LET d == Append(df, row)
          IN /\ df' = d
             /\ signals' =
                    [of |-> "rules",
                     entry |-> check_entry_signals(d, idx),
                     exit_long |-> check_exit_signals(d, idx, "long"),
                     exit_short |-> check_exit_signals(d, idx, "short")]
    /\ idx' = idx + 1
    /\ UNCHANGED <<equity, current_position, trades, equity_curve,
                   trade_count, pc, results, called, runs, first, config>>

NextRules == EvalBar

SpecRules == InitRules /\ [][NextRules]_vars

----------------------------------------------------------------------------
(* VolatilityIndicators.get_dynamic_stops called bar by bar on a frame *)

\* flat rows with every ATR of AtrValues in every regime
StopRows ==
    { Row(FlatClose, FlatClose, FlatClose, FlatClose, 1, atr, 50, 0,
          regime, 200) :
          atr \in {0, 1, 500, 1000, 2000, 2500}, regime \in {0, 1, 2} }

\* no row has been read
InitStops ==
    /\ equity = InitialEquity
    /\ current_position = <<>>
    /\ trades = <<>>
    /\ equity_curve = <<>>
    /\ trade_count = 0
    /\ df = <<>>
    /\ idx = 0
    /\ pc = "stops"
    /\ results = NoResults
    /\ called = {}
    /\ runs = 0
    /\ first = NoResults
    /\ config = DEFAULT_CONFIG
    /\ signals = NoSignals

\* the frame has a further row idx: get_dynamic_stops is called on it
StopsBar ==
    /\ pc = "stops"
    /\ idx = Len(df)
    /\ Len(df) < MaxStopBars
    /\ \E row \in StopRows :
          /\ df' = Append(df, row)
          /\ signals' = [of |-> "get_dynamic_stops",
                         stops |-> get_dynamic_stops(Append(df, row), idx)]
    /\ idx' = idx + 1
    /\ UNCHANGED <<equity, current_position, trades, equity_curve,
                   trade_count, pc, results, called, runs, first, config>>

NextStops == StopsBar

SpecStops == InitStops /\ [][NextStops]_vars

----------------------------------------------------------------------------
(* CandlestickPatterns.is_engulfing called bar by bar on a frame *)

\* candles that open and close at 7, 8, 10 or 11
EngulfRows ==
    { Row(o, Max(o, c), Min(o, c), c, 1, 1000, 50, 0, 1, 200) :
          o \in {7, 8, 10, 11}, c \in {7, 8, 10, 11} }

\* no row has been read
InitEngulf ==
    /\ equity = InitialEquity
    /\ current_position = <<>>
    /\ trades = <<>>
    /\ equity_curve = <<>>
    /\ trade_count = 0
    /\ df = <<>>
    /\ idx = 0
    /\ pc = "engulfing"
    /\ results = NoResults
    /\ called = {}
    /\ runs = 0
    /\ first = NoResults
    /\ config = DEFAULT_CONFIG
    /\ signals = NoSignals

\* the frame has a further row idx: is_engulfing is called on it
EngulfBar ==
    /\ pc = "engulfing"
    /\ idx = Len(df)
    /\ Len(df) < MaxEngulfBars
    /\ \E row \in EngulfRows :
          /\ df' = Append(df, row)
          /\ signals' = [of |-> "is_engulfing",
                         value |-> is_engulfing(Append(df, row), idx)]
    /\ idx' = idx + 1
    /\ UNCHANGED <<equity, current_position, trades, equity_curve,
                   trade_count, pc, results, called, runs, first, config>>

NextEngulf == EngulfBar

SpecEngulf == InitEngulf /\ [][NextEngulf]_vars

----------------------------------------------------------------------------
(* VolatilityIndicators._calculate_volatility_regime, row by row *)

RECURSIVE RegimePrefixTo(_, _)
\* rows 0 .. n-1 of a frame whose first k rows have ATR 0.5 and whose other
\* rows have ATR 1.5; no row has a full window behind it
RegimePrefixTo(k, n) ==
    IF n = 0 THEN <<>>
    ELSE Append(RegimePrefixTo(k, n - 1),
                Row(FlatClose, FlatClose, FlatClose, FlatClose, 1,
                    IF n <= k THEN 500 ELSE 1500, 50, 0, 1, 200))

\* frames two rows short of a full window, with about a quarter or about
\* three quarters of their rows at the low ATR
RegimePrefixes ==
    { RegimePrefixTo(k, regime_window - 2) : k \in {23, 24, 25, 73, 74, 75} }

InitRegime ==
    /\ equity = InitialEquity
    /\ current_position = <<>>
    /\ trades = <<>>
    /\ equity_curve = <<>>
    /\ trade_count = 0
    /\ df \in RegimePrefixes
    /\ idx = regime_window - 2
    /\ pc = "regime"
    /\ results = NoResults
    /\ called = {}
    /\ runs = 0
    /\ first = NoResults
    /\ config = DEFAULT_CONFIG
    /\ signals = NoSignals

\* the frame has a further row idx: its Volatility_Regime is computed from
\* the ATR column up to it
RegimeBar ==
    /\ pc = "regime"
    /\ idx = Len(df)
    /\ Len(df) < regime_window - 2 + MaxRegimeBars
    /\ \E atr \in {250, 500, 1000, 1500, 2000} :
          LET row == Row(FlatClose, FlatClose, FlatClose, FlatClose, 1, atr,
                         50, 0, 1, 200)
              regime == _calculate_volatility_regime(Append(df, row), idx)
          IN /\ df' = Append(df, [row EXCEPT !.Volatility_Regime = regime])
             /\ signals' = [of |-> "_calculate_volatility_regime",
                            regime |-> regime]
    /\ idx' = idx + 1
    /\ UNCHANGED <<equity, current_position, trades, equity_curve,
                   trade_count, pc, results, called, runs, first, config>>

NextRegime == RegimeBar

SpecRegime == InitRegime /\ [][NextRegime]_vars

----------------------------------------------------------------------------
(* Properties *)

IsOpen == current_position # <<>>
Position == current_position[1]

\* the step is one pass of the loop of run
BarStep == idx' = idx + 1

\* C1: at most one Position is open (every position opened and not yet in
\* the ledger is the one in current_position), and a bar is passed to
\* _check_new_entry only if no Position was open when the bar started.
C1_SinglePosition ==
    [][BarStep =>
        /\ ("_check_new_entry" \in called' => current_position = <<>>)
        /\ Len(current_position') <= 1
        /\ trade_count' - Len(trades')
               = (IF current_position' # <<>> THEN 1 ELSE 0)]_vars

\* a position has survived an exit check after an earlier trade was closed
C1_Witness ==
    /\ IsOpen
    /\ called = {"_check_position_exit"}
    /\ Len(trades) >= 1

\* C2: the ids of the ledger, in ledger order, are 1, 2, 3, ...; an open
\* position carries the id given when it was opened, the next one.
C2_TradeIds ==
    /\ \A i \in 1..Len(trades) : trades[i].id = i
    /\ IsOpen => /\ Position.trade_id = Len(trades) + 1
                 /\ Position.trade_id = trade_count

\* two trades are in the ledger
C2_Witness ==
    /\ Len(trades) >= 2
    /\ trades[2].id = 2

\* C3: equity - initial_capital is the sum of pnl over the ledger, at every
\* point of a run and in the summary run returns.
C3_EquityIsRealisedPnl ==
    /\ equity - InitialEquity = SumPnl(trades)
    /\ results.status = "ok" =>
           results.final_equity - results.initial_capital
               = SumPnl(results.trades)

\* a run has returned with two trades of non-zero pnl in the ledger
C3_Witness ==
    /\ pc = "done"
    /\ results.status = "ok"
    /\ Len(trades) >= 2
    /\ trades[1].pnl # 0
    /\ trades[2].pnl # 0
    /\ equity # InitialEquity

\* the exit conditions of trade t on its exit bar, recomputed from the frame
TradeStop(t) ==
    calculate_trailing_stop(df, t.exit_time, t.type, t.entry_price)
TradeTarget(t) ==
    IF t.type = "long"
    THEN t.entry_price + get_dynamic_stops(df, t.entry_time)[2]
    ELSE t.entry_price - get_dynamic_stops(df, t.entry_time)[2]
TradeHitStop(t) ==
    IF t.type = "long"
    THEN iloc(df, t.exit_time).Low * PriceScale <= TradeStop(t)
    ELSE iloc(df, t.exit_time).High * PriceScale >= TradeStop(t)
TradeHitTarget(t) ==
    IF t.type = "long"
    THEN iloc(df, t.exit_time).High * PriceScale >= TradeTarget(t)
    ELSE iloc(df, t.exit_time).Low * PriceScale <= TradeTarget(t)

\* C4: stop > target > signal.  A trade whose exit bar hit the stop is a
\* 'Stop' at the trailing stop, whatever else fired; otherwise one whose
\* exit bar hit the target is a 'Target' at take_profit; otherwise it is
\* a 'Signal' at the bar's Close.
C4_ExitPriority ==
    \A i \in 1..Len(trades) :
        LET t == trades[i]
        IN /\ TradeHitStop(t) =>
                  t.exit_reason = "Stop" /\ t.exit_price = TradeStop(t)
           /\ ~TradeHitStop(t) /\ TradeHitTarget(t) =>
                  t.exit_reason = "Target" /\ t.exit_price = TradeTarget(t)
           /\ ~TradeHitStop(t) /\ ~TradeHitTarget(t) =>
                  /\ t.exit_reason = "Signal"
                  /\ t.exit_price = iloc(df, t.exit_time).Close * PriceScale

\* a long trade whose exit bar went through both the stop and the target
C4_Witness ==
    \E i \in 1..Len(trades) :
        /\ trades[i].type = "long"
        /\ TradeHitStop(trades[i])
        /\ TradeHitTarget(trades[i])
        /\ trades[i].exit_reason = "Stop"

\* the trailing stop of the same open position before and after the step
SamePosition ==
    /\ current_position # <<>>
    /\ current_position' # <<>>
    /\ current_position'[1].trade_id = current_position[1].trade_id

\* C5: while a Position is open its trailing_stop never loosens: from bar
\* to bar it is non-decreasing for a long and non-increasing for a short.
C5_TrailingStopNeverLoosens ==
    [][SamePosition =>
        IF current_position[1].type = "long"
        THEN current_position'[1].trailing_stop
                 >= current_position[1].trailing_stop
        ELSE current_position'[1].trailing_stop
                 <= current_position[1].trailing_stop]_vars

\* the open position was checked for exit on the last bar and kept
KeptOpen == IsOpen /\ called = {"_check_position_exit"}

\* Close -/+ 1.5 * stop_distance on bar i for a position of the given type
Unclamped(i, type) ==
    IF type = "long"
    THEN iloc(df, i).Close * PriceScale
             - (get_dynamic_stops(df, i)[1] * 3) \div 2
    ELSE iloc(df, i).Close * PriceScale
             + (get_dynamic_stops(df, i)[1] * 3) \div 2

\* level is the unclamped level of bar i clamped to the entry boundary
ClampedTo(level, i, type, entry_price) ==
    IF type = "long"
    THEN /\ level * 100 >= entry_price * 99
         /\ level = Max(Unclamped(i, type), (entry_price * 99) \div 100)
    ELSE /\ level * 100 <= entry_price * 101
         /\ level = Min(Unclamped(i, type), (entry_price * 101) \div 100)

\* C6: the trailing_stop an exit check leaves on the position, and the one
\* a 'Stop' trade was closed at, is Close -/+ 1.5 * stop_distance clamped
\* to entry_price * 0.99 (long, from below) or * 1.01 (short, from above).
C6_TrailingStopClamped ==
    /\ KeptOpen =>
           ClampedTo(Position.trailing_stop, idx - 1, Position.type,
                     Position.entry_price)
    /\ \A i \in 1..Len(trades) :
           trades[i].exit_reason = "Stop" =>
               ClampedTo(trades[i].exit_price, trades[i].exit_time,
                         trades[i].type, trades[i].entry_price)

\* a long position kept open with the clamp active: the unclamped level is
\* below the boundary and trailing_stop sits on the boundary
C6_Witness ==
    /\ KeptOpen
    /\ Position.type = "long"
    /\ Unclamped(idx - 1, "long") * 100 < Position.entry_price * 99
    /\ Position.trailing_stop * 100 = Position.entry_price * 99

\* C7: a process_bar step that keeps the position open changes nothing of
\* it but trailing_stop: take_profit, side, entry price and time, size,
\* stop_loss and trade id are as they were set at the open.
C7_TakeProfitFixed ==
    [][(current_position # <<>> /\ current_position' # <<>>) =>
        current_position'[1] =
            [current_position[1] EXCEPT
                !.trailing_stop = current_position'[1].trailing_stop]]_vars

\* a position kept open by an exit check that moved its trailing_stop, on a
\* bar whose take-profit distance differs from the one at entry
C7_Witness ==
    /\ KeptOpen
    /\ Position.trailing_stop # Position.stop_loss
    /\ get_dynamic_stops(df, idx - 1)[2]
           # get_dynamic_stops(df, Position.entry_time)[2]

RECURSIVE RealisedUpTo(_, _)
\* the sum of pnl of the trades of ts closed on bars <= i
RealisedUpTo(ts, i) ==
    IF ts = <<>> THEN 0
    ELSE (IF ts[1].exit_time <= i THEN ts[1].pnl ELSE 0)
         + RealisedUpTo(Tail(ts), i)

\* C8: the equity curve has one sample per bar processed (per row of the
\* frame once run has returned) and sample i is initial_capital plus the
\* pnl of the trades closed on bars <= i: realised pnl only.
C8_CurveIsRealisedEquity ==
    /\ Len(equity_curve) = idx
    /\ pc = "done" => Len(equity_curve) = Len(df)
    /\ \A i \in 1..Len(equity_curve) :
           equity_curve[i] = InitialEquity + RealisedUpTo(trades, i - 1)
    /\ results.status = "ok" => results.equity_curve = equity_curve

\* run has returned with a trade of non-zero pnl closed before the last bar
\* and a position still open that is in profit or loss at the last Close
C8_Witness ==
    /\ pc = "done"
    /\ results.status = "ok"
    /\ trades[1].pnl # 0
    /\ IsOpen
    /\ Position.entry_time < Len(df) - 1
    /\ iloc(df, Len(df) - 1).Close * PriceScale # Position.entry_price
    /\ equity_curve[Len(equity_curve)] = InitialEquity + trades[1].pnl

\* C9: a second run of the same engine on the same frame ends with the same
\* ledger and the same equity curve as the first, and returns (or raises)
\* the same.
C9_RerunIdentical ==
    (runs = 2 /\ pc = "done") =>
        /\ trades = first.trades
        /\ equity_curve = first.equity_curve
        /\ results = first.results

\* a second run has returned and its ledger holds a trade
C9_Witness ==
    /\ runs = 2
    /\ pc = "done"
    /\ Len(trades) >= 1
    /\ results.status = "ok"

\* C10: while every bar processed has index < 20 no bar is passed to
\* _check_new_entry, no position is open, the counter is 0 and the ledger
\* is empty; and no position is ever opened on a bar with index < 20.
C10_NoEntryBeforeWarmUp ==
    /\ idx <= WarmUp =>
           /\ "_check_new_entry" \notin called
           /\ current_position = <<>>
           /\ trade_count = 0
           /\ trades = <<>>
    /\ IsOpen => Position.entry_time >= WarmUp
    /\ \A i \in 1..Len(trades) : trades[i].entry_time >= WarmUp

\* run has returned on a frame of 19 rows
C10_Witness ==
    /\ pc = "done"
    /\ Len(df) = WarmUp - 1
    /\ idx = Len(df)
    /\ Len(equity_curve) = Len(df)

\* C11: a run that ends with an empty ledger returns a summary (it does not
\* raise) whose win_rate is the neutral 0 and whose trade_count is 0.
C11_EmptyLedgerSummary ==
    (pc = "done" /\ trades = <<>>) =>
        /\ results.status = "ok"
        /\ results.trade_count = 0
        /\ results.win_rate[1] = 0


\* the engine as reset leaves it
FreshEngine ==
    [equity |-> InitialEquity, current_position |-> <<>>, trades |-> <<>>,
     equity_curve |-> <<>>, trade_count |-> 0]

\* C12: reset applied to the engine of any reachable state gives equity =
\* initial_capital, no Position, an empty ledger, an empty curve and a
\* counter of 0; and every call of run leaves the engine in that state
\* with the loop at the first row, before any bar is processed.
C12_ResetClearsEngine ==
    [][/\ reset(Engine) = FreshEngine
       /\ (pc # "loop" /\ pc' = "loop") =>
              /\ equity' = InitialEquity
              /\ current_position' = <<>>
              /\ trades' = <<>>
              /\ equity_curve' = <<>>
              /\ trade_count' = 0
              /\ idx' = 0]_vars

\* a second run has just reset an engine that the first run left with a
\* trade in the ledger, a curve of one sample per row and a changed equity
C12_Witness ==
    /\ runs = 2
    /\ pc = "loop"
    /\ idx = 0
    /\ Len(first.trades) >= 1
    /\ first.results.final_equity # InitialEquity
    /\ Len(first.equity_curve) = Len(df)
    /\ Engine = FreshEngine


\* the lifecycle state: "Flat", or the side of the open position
Lifecycle(cp) == IF cp = <<>> THEN "Flat" ELSE cp[1].type

\* C13: on every bar the lifecycle moves only Flat -> Open(side) on an
\* accepted entry (index >= 20, the composer's signal for that side) or
\* Open(side) -> Flat on an exit that adds a trade, or stays where it is
\* with the same position; a bar that starts Flat is not passed to the exit
\* check, a bar that starts Open is not passed to the entry check, and a bar
\* that closes a position ends Flat.
C13_Lifecycle ==
    [][BarStep =>
        /\ current_position = <<>> =>
               /\ "_check_position_exit" \notin called'
               /\ Len(trades') = Len(trades)
               /\ current_position' # <<>> =>
                      /\ idx >= WarmUp
                      /\ called' = {"_check_new_entry"}
                      /\ Lifecycle(current_position') =
                             (IF check_entry_signals(df', idx)[1]
                              THEN "long" ELSE "short")
                      /\ \/ check_entry_signals(df', idx)[1]
                         \/ check_entry_signals(df', idx)[2]
        /\ current_position # <<>> =>
               /\ called' = {"_check_position_exit"}
               /\ current_position' # <<>> =>
                      /\ Lifecycle(current_position')
                             = Lifecycle(current_position)
                      /\ current_position'[1].trade_id
                             = current_position[1].trade_id
                      /\ Len(trades') = Len(trades)
               /\ current_position' = <<>> =>
                      Len(trades') = Len(trades) + 1
        /\ Len(trades') > Len(trades) => current_position' = <<>>]_vars

\* the engine is Flat after the exit of a short that followed a closed long:
\* Flat -> Open(long) -> Flat -> Open(short) -> Flat
C13_Witness ==
    /\ pc = "loop"
    /\ current_position = <<>>
    /\ called = {"_check_position_exit"}
    /\ Len(trades) = 2
    /\ trades[1].type = "long"
    /\ trades[2].type = "short"
    /\ trades[2].exit_time = idx - 1


\* the step closes the open position
Closes == BarStep /\ current_position # <<>> /\ current_position' = <<>>

\* C14: a step that closes the position appends exactly one record to the
\* ledger, carrying the position's id, side, entry price, entry time and
\* size, with pnl = (exit_price - entry_price) * size for a long and
\* (entry_price - exit_price) * size for a short; equity grows by exactly
\* that pnl and no position is left.
C14_ClosePosition ==
    [][Closes =>
        LET p == current_position[1]
            t == trades'[Len(trades')]
        IN /\ Len(trades') = Len(trades) + 1
           /\ SubSeq(trades', 1, Len(trades)) = trades
           /\ t.id = p.trade_id
           /\ t.type = p.type
           /\ t.entry_price = p.entry_price
           /\ t.entry_time = p.entry_time
           /\ t.size = p.size
           /\ t.exit_time = idx
           /\ t.pnl = (IF p.type = "long"
                       THEN (t.exit_price - p.entry_price) * p.size
                       ELSE (p.entry_price - t.exit_price) * p.size)
           /\ equity' = equity + t.pnl
           /\ current_position' = <<>>]_vars

\* a short has just been closed below its entry price, at a profit
C14_Witness ==
    /\ current_position = <<>>
    /\ called = {"_check_position_exit"}
    /\ Len(trades) >= 1
    /\ trades[Len(trades)].type = "short"
    /\ trades[Len(trades)].exit_price < trades[Len(trades)].entry_price
    /\ trades[Len(trades)].pnl > 0
    /\ equity = InitialEquity + SumPnl(trades)


\* stop_distance of the bar a position was entered on, in ticks:
\* max(ATR, 0.001) * 2.0 * regime multiplier (1.5, 1.0, 0.75)
StopDistanceAtEntry(p) ==
    LET bar == iloc(df, p.entry_time)
        atr == IF bar.ATR > minimum_atr_value THEN bar.ATR
               ELSE minimum_atr_value
        quarters == CASE bar.Volatility_Regime = 0 -> 6
                      [] bar.Volatility_Regime = 1 -> 4
                      [] bar.Volatility_Regime = 2 -> 3
    IN (atr * TicksPerMilli * 2 * quarters) \div 4

\* C15: an open position has stop_loss = entry_price - stop_distance and
\* take_profit = entry_price + 2 * stop_distance if it is a long, and
\* stop_loss = entry_price + stop_distance and take_profit = entry_price -
\* 2 * stop_distance if it is a short, stop_distance being that of the
\* entry bar: the take-profit distance is twice the stop distance.
C15_RewardToRisk ==
    IsOpen =>
        LET p == Position
            sd == StopDistanceAtEntry(p)
        IN /\ sd > 0
           /\ Abs(p.take_profit - p.entry_price)
                  = 2 * Abs(p.stop_loss - p.entry_price)
           /\ p.type = "long" =>
                  /\ p.stop_loss = p.entry_price - sd
                  /\ p.take_profit = p.entry_price + 2 * sd
           /\ p.type = "short" =>
                  /\ p.stop_loss = p.entry_price + sd
                  /\ p.take_profit = p.entry_price - 2 * sd

\* a short has just been opened on a bar of the high-volatility regime
C15_Witness ==
    /\ IsOpen
    /\ called = {"_check_new_entry"}
    /\ Position.type = "short"
    /\ iloc(df, Position.entry_time).Volatility_Regime = 2
    /\ Position.entry_price - Position.take_profit
           = 2 * (Position.stop_loss - Position.entry_price)


\* C16: every record of the ledger has exit_reason 'Stop', 'Target' or
\* 'Signal'; inside a run (a bar of the loop, or the return of run) the
\* records already in the ledger stay as and where they are, and a record
\* is added, one at a time and at the end, only by a bar that closes the
\* open position.
C16_LedgerAppendOnly ==
    [][/\ \A i \in 1..Len(trades) :
              trades[i].exit_reason \in {"Stop", "Target", "Signal"}
       /\ pc = "loop" =>
              /\ Len(trades') >= Len(trades)
              /\ SubSeq(trades', 1, Len(trades)) = trades
              /\ Len(trades') # Len(trades) =>
                     /\ Len(trades') = Len(trades) + 1
                     /\ BarStep
                     /\ current_position # <<>>
                     /\ current_position' = <<>>
                     /\ trades'[Len(trades')].exit_reason
                            \in {"Stop", "Target", "Signal"}]_vars

\* run has returned a ledger of two records closed for different reasons
C16_Witness ==
    /\ pc = "done"
    /\ Len(trades) = 2
    /\ trades[1].exit_reason # trades[2].exit_reason
    /\ trades[1].exit_time < trades[2].exit_time
    /\ results.trades = trades


\* the four conditions on a configuration c
ConfigOk(c) ==
    /\ c.position_size > 0
    /\ c.position_size <= c.max_position_size
    /\ c.stop_loss_atr > 0
    /\ c.take_profit_atr > c.stop_loss_atr
    /\ c.trade_direction = "long" \/ c.trade_direction = "short"
           \/ c.trade_direction = "both"

\* C17: main validates the configuration before it runs anything: a run
\* is started (or has been) only with a configuration that meets the four
\* conditions, and with one that does not main has raised, with no engine
\* run and nothing processed.
C17_ValidatedBeforeRun ==
    /\ pc \in {"ready", "loop", "done"} => ConfigOk(config)
    /\ runs > 0 => ConfigOk(config)
    /\ pc = "AssertionError" =>
           /\ ~ConfigOk(config)
           /\ runs = 0
           /\ df = <<>>
           /\ equity_curve = <<>>
           /\ results = NoResults
    /\ pc = "main" => runs = 0

\* main has raised on a configuration whose only fault is take_profit_atr
\* equal to stop_loss_atr
C17_Witness ==
    /\ pc = "AssertionError"
    /\ config.take_profit_atr = config.stop_loss_atr
    /\ config.stop_loss_atr > 0
    /\ config.position_size = config.max_position_size
    /\ config.trade_direction = "both"
    /\ runs = 0


\* C18: when the entry composer has returned (bullish, bearish) for a bar,
\* the engine ends the bar with a long opened on it if bullish is true,
\* whatever bearish is, with a short opened on it if only bearish is true,
\* and flat if neither is.
C18_BullishPriority ==
    signals.of = "entry" =>
        /\ signals.bullish =>
               /\ IsOpen
               /\ Position.type = "long"
               /\ Position.entry_time = idx - 1
        /\ (~signals.bullish /\ signals.bearish) =>
               /\ IsOpen
               /\ Position.type = "short"
               /\ Position.entry_time = idx - 1
        /\ (~signals.bullish /\ ~signals.bearish) => ~IsOpen
        /\ (IsOpen /\ Position.type = "short") =>
               (signals.bearish /\ ~signals.bullish)

\* the composer returned both signals true and a long was opened on the bar
C18_Witness ==
    /\ signals.of = "entry"
    /\ signals.bullish
    /\ signals.bearish
    /\ IsOpen
    /\ Position.type = "long"
    /\ Position.entry_time = idx - 1
    /\ Position.stop_loss < Position.entry_price


\* the patterns of bar i in the direction of an entry, as the claim lists
\* them: engulfing, doji with the momentum score on that side of 0, hammer
\* or shooting star, marubozu, breakout
BullishPattern(i) ==
    \/ is_engulfing(df, i)[1]
    \/ is_doji(df, i) /\ FracGT(calculate_momentum_score(df, i), 0)
    \/ is_hammer(df, i)
    \/ is_marubozu(df, i)[1]
    \/ is_breakout_candle(df, i)[1]

BearishPattern(i) ==
    \/ is_engulfing(df, i)[2]
    \/ is_doji(df, i) /\ FracLT(calculate_momentum_score(df, i), 0)
    \/ is_shooting_star(df, i)
    \/ is_marubozu(df, i)[2]
    \/ is_breakout_candle(df, i)[2]

\* the entry decision for bar i >= 20
EntryDecision(i) ==
    << /\ BullishPattern(i)
       /\ is_momentum_confirmed(df, i)
       /\ TrendGT03(get_trend_strength(df, i))
       /\ ~get_momentum_signals(df, i).rsi_overbought,
       /\ BearishPattern(i)
       /\ is_momentum_confirmed(df, i)
       /\ TrendLT03(get_trend_strength(df, i))
       /\ ~get_momentum_signals(df, i).rsi_oversold >>

\* C19: check_entry_signals returns (false, false) for an index < 20 and,
\* for an index >= 20, bullish = (a bullish pattern) and volume-confirmed
\* momentum and trend_strength > 0.3 and not rsi_overbought, bearish = (a
\* bearish pattern) and volume-confirmed momentum and trend_strength < -0.3
\* and not rsi_oversold.
C19_EntryComposition ==
    signals.of = "rules" =>
        /\ signals.entry = EntryDecision(idx - 1)
        /\ \A i \in 0..(Len(df) - 1) :
               check_entry_signals(df, i) =
                   (IF i < 20 THEN <<FALSE, FALSE>> ELSE EntryDecision(i))

\* the composer returned bullish on a bar whose only bullish pattern is a
\* doji with a positive momentum score
C19_Witness ==
    /\ signals.of = "rules"
    /\ signals.entry = <<TRUE, FALSE>>
    /\ is_doji(df, idx - 1)
    /\ FracGT(calculate_momentum_score(df, idx - 1), 0)
    /\ ~is_engulfing(df, idx - 1)[1]
    /\ ~is_hammer(df, idx - 1)
    /\ ~is_marubozu(df, idx - 1)[1]
    /\ ~is_breakout_candle(df, idx - 1)[1]


\* the signal exit of bar i for a long and for a short, as the claim lists
\* its four parts: reversal pattern, momentum reversal, MACD histogram
\* sign-cross, RSI extreme
LongSignalExit(i) ==
    \/ is_engulfing(df, i)[2] \/ is_shooting_star(df, i)
    \/ /\ FracLT(calculate_momentum_score(df, i), -3)
       /\ get_trend_strength(df, i) < 0
    \/ iloc(df, i - 1).MACD_Hist > 0 /\ iloc(df, i).MACD_Hist < 0
    \/ iloc(df, i).RSI > 70

ShortSignalExit(i) ==
    \/ is_engulfing(df, i)[1] \/ is_hammer(df, i)
    \/ /\ FracGT(calculate_momentum_score(df, i), 3)
       /\ get_trend_strength(df, i) > 0
    \/ iloc(df, i - 1).MACD_Hist < 0 /\ iloc(df, i).MACD_Hist > 0
    \/ iloc(df, i).RSI < 30

\* C20: check_exit_signals is true for a long iff bearish engulfing or
\* shooting star, or momentum_score < -0.3 with trend_strength < 0, or the
\* MACD histogram goes from positive to negative, or RSI is overbought;
\* for a short iff bullish engulfing or hammer, or momentum_score > 0.3
\* with trend_strength > 0, or the histogram goes from negative to
\* positive, or RSI is oversold.
C20_ExitComposition ==
    signals.of = "rules" =>
        /\ signals.exit_long = LongSignalExit(idx - 1)
        /\ signals.exit_short = ShortSignalExit(idx - 1)
        /\ \A i \in 1..(Len(df) - 1) :
               /\ check_exit_signals(df, i, "long") = LongSignalExit(i)
               /\ check_exit_signals(df, i, "short") = ShortSignalExit(i)

\* the exit composer returned true for a long and false for a short on a
\* bar whose only exit condition is the histogram falling through zero
C20_Witness ==
    /\ signals.of = "rules"
    /\ signals.exit_long
    /\ ~signals.exit_short
    /\ iloc(df, idx - 2).MACD_Hist > 0
    /\ iloc(df, idx - 1).MACD_Hist < 0
    /\ ~is_engulfing(df, idx - 1)[2]
    /\ ~is_shooting_star(df, idx - 1)
    /\ ~FracLT(calculate_momentum_score(df, idx - 1), -3)
    /\ iloc(df, idx - 1).RSI <= 70


\* the regime multiplier, in quarters: 1.5 Low, 1.0 Normal, 0.75 High
RegimeQuarters(regime) ==
    IF regime = 0 THEN 6 ELSE IF regime = 1 THEN 4 ELSE 3

RawVolSize(i) ==
    LET cur == iloc(df, i).Historical_Volatility
        guarded == IF cur > 1 THEN cur ELSE 1
        regime == iloc(df, i).Volatility_Regime
        tenths == IF regime = 0 THEN 12 ELSE IF regime = 1 THEN 10 ELSE 8
    IN (position_size * SumCol(df, i - 20, i, "Historical_Volatility")
            * tenths) \div (20 * guarded * 10)

\* the same clamped into [min_size, max_size] = [0.25, 2.0]
VolSize(i) ==
    IF RawVolSize(i) > 2000 THEN 2000
    ELSE IF RawVolSize(i) < 250 THEN 250 ELSE RawVolSize(i)

\* size * 2 * den = vol_size * (den + |num|) up to the truncation of size,
\* for momentum_score = num / den
SizeIs(size, vol_size, q) ==
    /\ size * 2 * q[2] <= vol_size * (q[2] + Abs(q[1]))
    /\ (size + 1) * 2 * q[2] > vol_size * (q[2] + Abs(q[1]))

\* C22: the size of the open position and of every trade is the
\* volatility-adjusted size of its entry bar, clamped into [0.25, 2.0],
\* times 0.5 + 0.5 * |momentum_score|, a factor in [0.5, 1.0]; so it lies
\* in [0.125, 2.0], also when the current volatility is 0.
C22_PositionSize ==
    /\ IsOpen =>
           /\ SizeIs(Position.size, VolSize(Position.entry_time),
                     calculate_momentum_score(df, Position.entry_time))
           /\ Position.size >= 125 /\ Position.size <= 2000
    /\ \A i \in 1..Len(trades) :
           /\ SizeIs(trades[i].size, VolSize(trades[i].entry_time),
                     calculate_momentum_score(df, trades[i].entry_time))
           /\ trades[i].size >= 125 /\ trades[i].size <= 2000

\* a position was opened on a bar whose current volatility is 0: its
\* volatility-adjusted size is the upper clamp
C22_Witness ==
    /\ IsOpen
    /\ called = {"_check_new_entry"}
    /\ iloc(df, Position.entry_time).Historical_Volatility = 0
    /\ RawVolSize(Position.entry_time) > 2000
    /\ Position.size > 1000
    /\ Position.size <= 2000


\* the candle is red (closes below its open) / green (closes above it)
Red(r) == r.Close < r.Open
Green(r) == r.Close > r.Open

\* the candle opens at o and closes at c
Candle(r, o, c) == r.Open = o /\ r.Close = c

\* C23: is_engulfing never reports bullish and bearish together; bullish
\* holds exactly when the previous candle is red, the current one green,
\* the current Open below the previous Close and the current Close above
\* the previous Open; bearish is the same with the colours and the
\* comparisons swapped; previous (10, 8) then current (7, 11) gives
\* (True, False), previous (8, 10) then current (11, 7) (False, True); at
\* index 0 the result is (False, False).
C23_Engulfing ==
    signals.of = "is_engulfing" =>
        LET i == idx - 1
            bullish == signals.value[1]
            bearish == signals.value[2]
        IN /\ ~(bullish /\ bearish)
           /\ i = 0 => signals.value = <<FALSE, FALSE>>
           /\ i >= 1 =>
                LET prev == df[i]
                    cur == df[i + 1]
                IN /\ bullish <=> (Red(prev) /\ Green(cur)
                                   /\ cur.Open < prev.Close
                                   /\ cur.Close > prev.Open)
                   /\ bearish <=> (Green(prev) /\ Red(cur)
                                   /\ cur.Open > prev.Close
                                   /\ cur.Close < prev.Open)
                   /\ (Candle(prev, 10, 8) /\ Candle(cur, 7, 11))
                          => signals.value = <<TRUE, FALSE>>
                   /\ (Candle(prev, 8, 10) /\ Candle(cur, 11, 7))
                          => signals.value = <<FALSE, TRUE>>

\* is_engulfing was called on a red candle (11, 7) after a green candle
\* (8, 10) and returned (False, True)
C23_Witness ==
    /\ signals.of = "is_engulfing"
    /\ idx = 2
    /\ Candle(df[1], 8, 10)
    /\ Candle(df[2], 11, 7)
    /\ signals.value = <<FALSE, TRUE>>


\* the rows of the 100-bar window ending at row i whose ATR is below /
\* equal to the ATR of row i (row i is among the equal ones)
WindowBelow(i) == { j \in (i - 99)..i : iloc(df, j).ATR < iloc(df, i).ATR }
WindowEqual(i) == { j \in (i - 99)..i : iloc(df, j).ATR = iloc(df, i).ATR }

\* 200 times the percentile rank of ATR[i] in its window: the rank is the
\* number of rows below plus the middle position of the tied rows
Rank200(i) == 2 * Cardinality(WindowBelow(i)) + Cardinality(WindowEqual(i)) + 1

\* the regime the percentile rank of row i asks for
Bucket(i) ==
    IF Rank200(i) <= 50 THEN 0
    ELSE IF Rank200(i) >= 150 THEN 2
    ELSE 1

C25_EntryExclusive ==
    signals.of = "rules" =>
        /\ ~(signals.entry[1] /\ signals.entry[2])
        /\ signals.entry[1] => get_trend_strength(df, idx - 1) > TrendCut
        /\ signals.entry[2] => get_trend_strength(df, idx - 1) < -TrendCut
        /\ \A i \in 0..(Len(df) - 1) :
               check_entry_signals(df, i) # <<TRUE, TRUE>>

\* the composer returned bullish only on a volume-confirmed bar that shows
\* a bullish pattern (hammer) and a bearish one (bearish engulfing), with
\* neither RSI extreme
C25_Witness ==
    /\ signals.of = "rules"
    /\ signals.entry = <<TRUE, FALSE>>
    /\ is_hammer(df, idx - 1)
    /\ is_engulfing(df, idx - 1)[2]
    /\ is_momentum_confirmed(df, idx - 1)
    /\ ~get_momentum_signals(df, idx - 1).rsi_overbought
    /\ ~get_momentum_signals(df, idx - 1).rsi_oversold


\* bar i shows everything a bullish entry needs but the trend: a bullish
\* pattern, volume-confirmed momentum and no overbought RSI
BullishButTrend(i) ==
    /\ BullishPattern(i)
    /\ is_momentum_confirmed(df, i)
    /\ ~get_momentum_signals(df, i).rsi_overbought

\* C26: with the trend window of 50 no position is opened on a bar of index
\* below 50, although the engine consults the entry rules from index 20 on.
C26_NoEntryBeforeTrendWindow ==
    /\ IsOpen => Position.entry_time >= 50
    /\ \A i \in 1..Len(trades) : trades[i].entry_time >= 50
    /\ idx <= 50 => ~IsOpen /\ trade_count = 0

\* a long was opened on bar 50 after bars 20 and 49 showed everything a
\* bullish entry needs but the trend
C26_Witness ==
    /\ IsOpen
    /\ Position.type = "long"
    /\ Position.entry_time = 50
    /\ BullishButTrend(20)
    /\ BullishButTrend(49)


\* C27: the trade-id counter is the length of the ledger plus one for an
\* open position; a position still open when the series ends is neither
\* closed nor recorded: the ledger has no record of its id, and
\* final_equity (the equity after the last bar) and the reported
\* trade_count count the closed trades only.
C27_OpenAtEndUnrecorded ==
    /\ trade_count = Len(trades) + (IF IsOpen THEN 1 ELSE 0)
    /\ IsOpen =>
           /\ Position.trade_id = trade_count
           /\ \A i \in 1..Len(trades) : trades[i].id < Position.trade_id
    /\ pc = "done" =>
           /\ equity = InitialEquity + SumPnl(trades)
           /\ Len(df) > 0 => equity = equity_curve[Len(df)]
           /\ results.status = "ok" =>
                  /\ results.final_equity = InitialEquity + SumPnl(trades)
                  /\ results.trade_count = Len(trades)
                  /\ results.trades = trades
                  /\ IsOpen => results.trade_count = trade_count - 1

\* the run has returned with one trade in the ledger and the second
\* position still open, its entry price away from the last Close
C27_Witness ==
    /\ pc = "done"
    /\ results.status = "ok"
    /\ IsOpen
    /\ Position.trade_id = 2
    /\ trade_count = 2
    /\ results.trade_count = 1
    /\ Position.entry_price # iloc(df, Len(df) - 1).Close * PriceScale


\* C28: every trade exits on a bar strictly later than the bar it entered
\* on, and each trade enters on a bar strictly later than the bar the trade
\* before it exited on; an open position entered strictly later than the
\* last exit and no later than the last bar processed.
C28_TradesInSequence ==
    /\ \A k \in 1..Len(trades) : trades[k].exit_time > trades[k].entry_time
    /\ \A k \in 1..(Len(trades) - 1) :
           trades[k + 1].entry_time > trades[k].exit_time
    /\ IsOpen =>
           /\ Position.entry_time < idx
           /\ Len(trades) > 0 =>
                  Position.entry_time > trades[Len(trades)].exit_time

\* two trades are in the ledger, the second entered on the bar right after
\* the one the first exited on and exited one bar later
C28_Witness ==
    /\ Len(trades) = 2
    /\ trades[1].exit_time = trades[1].entry_time + 1
    /\ trades[2].entry_time = trades[1].exit_time + 1
    /\ trades[2].exit_time = trades[2].entry_time + 1


\* the stop_loss set when trade t was opened: entry_price -/+ the
\* stop_distance of the entry bar
EntryStopLoss(t) ==
    IF t.type = "long"
    THEN t.entry_price - get_dynamic_stops(df, t.entry_time)[1]
    ELSE t.entry_price + get_dynamic_stops(df, t.entry_time)[1]

\* C29: a 'Stop' trade exits at the trailing stop recomputed on its exit
\* bar, at or above 0.99 * entry_price for a long and at or below 1.01 *
\* entry_price for a short, so its pnl is at least -0.01 * entry_price *
\* size however far the bar went beyond; a position kept open was tested
\* against the recomputed trailing_stop, its stop_loss being as set at the
\* entry.
C29_StopLossCapped ==
    /\ \A i \in 1..Len(trades) :
           LET t == trades[i]
           IN t.exit_reason = "Stop" =>
                  /\ t.exit_price = TradeStop(t)
                  /\ IF t.type = "long"
                     THEN t.exit_price * 100 >= t.entry_price * 99
                     ELSE t.exit_price * 100 <= t.entry_price * 101
                  /\ t.pnl >= -((t.entry_price * t.size) \div 100)
    /\ KeptOpen =>
           /\ Position.stop_loss = EntryStopLoss(Position)
           /\ IF Position.type = "long"
              THEN iloc(df, idx - 1).Low * PriceScale > Position.trailing_stop
              ELSE iloc(df, idx - 1).High * PriceScale < Position.trailing_stop

\* a long entered on bar 50 with its stop_loss a fraction of a cent below
\* the entry stayed open on bar 51, whose Low was below that stop_loss, and
\* was stopped on bar 52 at 0.99 * entry_price although the Low of that bar
\* was 30 dollars and more below: the pnl is -0.01 * entry_price * size
C29_Witness ==
    /\ Len(trades) = 1
    /\ trades[1].type = "long"
    /\ trades[1].exit_reason = "Stop"
    /\ trades[1].entry_time = 50
    /\ trades[1].exit_time = 52
    /\ iloc(df, 51).Low * PriceScale <= EntryStopLoss(trades[1])
    /\ trades[1].exit_price * 100 = trades[1].entry_price * 99
    /\ trades[1].exit_price # EntryStopLoss(trades[1])
    /\ iloc(df, 52).Low * PriceScale < trades[1].exit_price - 30 * PriceScale
    /\ trades[1].pnl * 100 = -(trades[1].entry_price * trades[1].size)

=============================================================================
